---- MODULE Spec2Model ----
(***************************************************************************)
(* Two libavfilter stages of simon3z/FFmpeg:                               *)
(*   - the segment selector  (a/vediting, src/unnamed/part_001)            *)
(*   - the timestamp stabilizer (a/vfixpts, src/libavfilter/f_fixpts.c)    *)
(*                                                                         *)
(* Time is exact arithmetic on an integer grid of "units".  A link's       *)
(* time_base is a whole number of units per tick, segment bounds are whole *)
(* units, so pts * av_q2d(time_base) is pts * time_base and the conversion *)
(* back to ticks (a C double -> int64 conversion) truncates toward zero.   *)
(* Floating point rounding is outside the model.                           *)
(*                                                                         *)
(* Return values: "OK" is 0, every other string is a negative AVERROR.     *)
(***************************************************************************)
EXTENDS Integers, Sequences, FiniteSets, TLC

\* ------------------------------------------------------------------ bounds
MaxBound  == 5      \* segment bounds are drawn from 0..MaxBound
MaxSegs   == 3      \* longest segment list
MaxBuf    == 3      \* stabilizer bufsize is drawn from 1..MaxBuf
MaxFrames == 4      \* frames delivered to the stabilizer in one run
MaxFTs    == 4      \* stabilizer input timestamps lie in 0..MaxFTs units
MaxTol    == 1      \* tolerance is drawn from 0..MaxTol
MaxPairs  == 3      \* longest description handed to init
MaxVal    == 2      \* described bounds are drawn from 0..MaxVal and 10

PtrSize == 8        \* sizeof(AVFrame *)

NULL == 0           \* the null MediaSegment pointer (positions are 1..Len)

TimeBases == {1, 2}                 \* inlink->time_base, in units per tick
DownstreamRets == {"OK", "ENOMEM"}  \* what ff_filter_frame(outputs[0]) returns
UpstreamErrs == {"EIO"}             \* what a failing upstream pull returns

\* The scenario of the specification, in units of 0.5 s with a time base of
\* one unit: segments "1.0-2.0#3.0-4.0", frames at 0.5, 1.5, 2.5, 3.5, 4.5 s.
ScenarioSegments == << [start |-> 2, end |-> 4], [start |-> 6, end |-> 8] >>
ScenarioFrames == << 1, 3, 5, 7, 9 >>
ScenarioPts == { ScenarioFrames[i] : i \in 1..Len(ScenarioFrames) }

VARIABLES
    \* ---- selector: EditingContext and its input link
    descr,          \* the (start, end) pairs the operator described
    opt_segments,   \* the segments option: [null, s], s the description's characters
    segments,       \* the MediaSegment list, a sequence of [start, end]
    e_time_base,    \* inlink->time_base
    current,        \* position of the current segment, NULL when exhausted
    ts_base,
    ts_prev,
    frame_out,
    \* ---- selector: control and observation
    i_ret,          \* return value of init, "pending" before it ran
    e_pc,           \* "new" before init, "failed" after a refused init, "idle", or
                    \* "pulling" at the head of request_frame's do-while
    e_ret,          \* return value of the last finished call, "pending" inside request_frame
    e_call,         \* the last filter_frame call: input ts, branch, output pts, downstream's answer
    strict,         \* the delivered timestamps were strictly increasing so far
    \* the four counters count while strict holds, and are 0 once it is lost
    nIn,            \* frames delivered
    nFwd,           \* frames pushed downstream
    nInside,        \* delivered frames strictly inside some segment
    nCross,         \* of those, the ones discarded by the boundary-crossing branch
    seen,           \* some frame was delivered
    maxIn,          \* largest timestamp delivered so far (when seen)
    lastOut,        \* output pts of the last forwarded frame, -1 before the first
    scen,           \* how many ScenarioFrames were delivered, in order, and nothing else; -1 otherwise
    e_req,          \* "none" when the last call was not a request_frame; otherwise whether a
                    \* frame went downstream with success during it: "forwarded" or "empty"
    \* ---- stabilizer: FixPtsContext and its input link
    inlink,         \* [type, time_base, ti]: ti is 1/frame_rate (video) or 1/sample_rate (audio)
    bufsize,
    maxbufsize,
    tolerance,
    fifo,           \* the AVFifoBuffer, a sequence of frames [id, pts, nb_samples]
    last_ts,
    last_nb_samples,
    \* ---- stabilizer: control and observation
    f_eof,          \* upstream has reported end-of-stream
    f_ret,          \* return value of the last call
    f_call,         \* the last call: op, upstream's answer to its pull, resolution steps
                    \* run, and the frame that arrived in it (arr, empty when none did)
    f_out,          \* frames the last call pushed downstream, in order
    f_freed,        \* frames the last call released, in arrival order
    f_ds,           \* downstream's answers to the pushes of the last call
    f_ti,           \* frame_ti of the last resolution step, 0 before the first
    f_leaked,       \* frames still queued when uninit freed the fifo: never released
    lastEmitNb,     \* nb_samples of the last frame pushed downstream, 0 before the first
    nArr,           \* frames delivered so far
    regular,        \* every frame so far arrived exactly one interval after the one before
    lastArr,        \* timestamp and sample count of the last arrival (while regular)
    deferred,       \* the oldest queued frame has gap 0 and was kept by a step that discarded
    ledger,         \* whether the two records below are kept in this run
    emitted,        \* the ids of the frames pushed downstream so far, in order
    discarded       \* the ids of the frames released by a resolution step so far

evars == << descr, opt_segments, segments, e_time_base, current, ts_base, ts_prev,
            frame_out, i_ret, e_pc, e_ret, e_call, strict, nIn, nFwd, nInside,
            nCross, seen, maxIn, lastOut, scen, e_req >>

fvars == << inlink, bufsize, maxbufsize, tolerance, fifo, last_ts,
            last_nb_samples, f_eof, f_ret, f_call, f_out, f_freed, f_ds, f_ti,
            f_leaked, lastEmitNb, nArr, regular, lastArr, deferred, ledger,
            emitted, discarded >>

vars == << evars, fvars >>

\* -------------------------------------------------- the segments option
\* A C string: the null pointer, or the characters before the terminator.
NullStr == [null |-> TRUE, s |-> << >>]
Str(s) == [null |-> FALSE, s |-> s]

DigitChars == << "0", "1", "2", "3", "4", "5", "6", "7", "8", "9" >>
IsDigit(c) == \E d \in 1..10 : DigitChars[d] = c
DigitVal(c) == (CHOOSE d \in 1..10 : DigitChars[d] = c) - 1

\* the decimal numeral of a whole number n >= 0
RECURSIVE Numeral(_)
Numeral(n) ==
    IF n < 10 THEN << DigitChars[n + 1] >>
    ELSE Numeral(n \div 10) \o << DigitChars[(n % 10) + 1] >>

\* the description "start-end#start-end#..." of a list of pairs
RECURSIVE Describe(_)
Describe(pairs) ==
    IF pairs = << >> THEN << >>
    ELSE Numeral(pairs[1].start) \o << "-" >> \o Numeral(pairs[1].end)
         \o (IF Len(pairs) > 1 THEN << "#" >> \o Describe(Tail(pairs)) ELSE << >>)

\* strsep(&n, delim): the token up to the first delim, and the new n (the
\* rest behind the delimiter, or the null pointer when there was none)
StrSep(n, delim) ==
    IF n.null THEN [tok |-> NullStr, n |-> NullStr]
    ELSE LET at == { k \in 1..Len(n.s) : n.s[k] = delim } IN
         IF at = {} THEN [tok |-> n, n |-> NullStr]
         ELSE LET k == CHOOSE k \in at : \A m \in at : k <= m IN
              [tok |-> Str(SubSeq(n.s, 1, k - 1)),
               n |-> Str(SubSeq(n.s, k + 1, Len(n.s)))]

\* the value of the longest prefix of digits, 0 when there is none
RECURSIVE LeadingDigits(_, _)
LeadingDigits(p, acc) ==
    IF p # << >> /\ IsDigit(p[1])
    THEN LeadingDigits(Tail(p), 10 * acc + DigitVal(p[1]))
    ELSE acc

\* atof(p) on whole numbers: an optional sign, then the leading digits
AToF(p) ==
    IF p # << >> /\ p[1] = "-" THEN 0 - LeadingDigits(Tail(p), 0)
    ELSE LeadingDigits(p, 0)

\* the monotonicity test also refuses a segment that starts where the last ended
NonMonotonic_Touching(j, start) == j # << >> /\ start <= j[Len(j)].end

\* j && segment->start < j->end  (j: the segments linked so far, last one last)
NonMonotonic(j, start) == j # << >> /\ start < j[Len(j)].end

\* segment->start >= segment->end
EmptySegment(start, end) == start >= end

\* The do-while of parse_segments: n is the rest of the option, j the list
\* linked so far.  The result is the return value and editing->segments.
RECURSIVE ParseLoop(_, _)
ParseLoop(n, j) ==
    LET t1 == StrSep(n, "-")
        start == AToF(t1.tok.s)
        t2 == StrSep(t1.n, "#")
        end == AToF(t2.tok.s)
    IN
    IF t1.tok.null THEN [ret |-> "EINVAL", segments |-> j]
    ELSE IF NonMonotonic(j, start) THEN [ret |-> "EINVAL", segments |-> j]
    ELSE IF t2.tok.null THEN [ret |-> "EINVAL", segments |-> j]
    ELSE IF EmptySegment(start, end) THEN [ret |-> "EINVAL", segments |-> j]
    ELSE LET linked == Append(j, [start |-> start, end |-> end]) IN
         IF t2.n.null THEN [ret |-> "OK", segments |-> linked]
         ELSE ParseLoop(t2.n, linked)

\* parse_segments
Editing_parse_segments(opt) ==
    IF opt.null THEN [ret |-> "EINVAL", segments |-> << >>]
    ELSE ParseLoop(opt, << >>)

\* ----------------------------------------------------------- segment lists
\* parse_segments accepts exactly the lists with start < end in every pair and
\* start >= the previous end; atof of a piece cut at '-' is never negative.
ValidSegments(segs) ==
    /\ \A i \in 1..Len(segs) : segs[i].start < segs[i].end
    /\ \A i \in 2..Len(segs) : segs[i].start >= segs[i-1].end

\* the lists of at most n segments on the grid whose first start is >= lo
RECURSIVE SegListsFrom(_, _)
SegListsFrom(lo, n) ==
    IF n = 0 THEN { << >> }
    ELSE { << >> } \cup
         UNION { UNION { { << [start |-> s, end |-> e] >> \o rest :
                             rest \in SegListsFrom(e, n - 1) } :
                         e \in (s + 1)..MaxBound } :
                 s \in lo..MaxBound }

\* the lists init accepts: at least one segment, and ValidSegments
SegmentLists == { segs \in SegListsFrom(0, MaxSegs) : Len(segs) > 0 /\ ValidSegments(segs) }

\* the walk skips a segment
SegNext_Skip(i) == IF i + 1 < Len(segments) THEN i + 2 ELSE NULL

\* segment->next
SegNext(i) == IF i < Len(segments) THEN i + 1 ELSE NULL

\* (double) frame->pts * av_q2d(inlink->time_base)
FrameInTs(pts) == pts * e_time_base

\* C conversion of a double to int64_t: truncation toward zero
Trunc(x, d) == IF x >= 0 THEN x \div d ELSE 0 - ((0 - x) \div d)

\* frame->pts = frame_out_ts / av_q2d(inlink->time_base)
ToPts(frame_out_ts) == Trunc(frame_out_ts, e_time_base)

\* the check compares against the wrong field
Discontinuity_WrongField(ctx, frame_in_ts) == ctx.ts_base > frame_in_ts

\* editing->ts_prev > frame_in_ts
Discontinuity(ctx, frame_in_ts) == ctx.ts_prev > frame_in_ts

\* frame_out_ts = editing->ts_base + (frame_in_ts - editing->current->start)
FrameOutTs(ctx, frame_in_ts) ==
    ctx.ts_base + (frame_in_ts - segments[ctx.current].start)

\* the crossing forgets to move ts_base
CrossTsBase_Kept(ctx, frame_in_ts) == ctx.ts_base

\* the new ts_base when a frame crosses the end of the current segment
CrossTsBase(ctx, frame_in_ts) == FrameOutTs(ctx, frame_in_ts)

\* frame_in_ts >= editing->current->end
CrossesEnd(ctx, frame_in_ts) == frame_in_ts >= segments[ctx.current].end

\* the comparison lets a frame at exactly start through
BeforeStart_Strict(ctx, frame_in_ts) == frame_in_ts < segments[ctx.current].start

\* frame_in_ts <= editing->current->start
BeforeStart(ctx, frame_in_ts) == frame_in_ts <= segments[ctx.current].start

Ctx == [current |-> current, ts_base |-> ts_base, ts_prev |-> ts_prev,
        frame_out |-> frame_out]

\* filter_frame (selector).  ctx is the EditingContext, pts the frame's
\* pts, ds what downstream answers if the frame is pushed.  The result holds
\* the new context, the return value, the branch taken and the pushed pts.
Editing_filter_frame(ctx, pts, ds) ==
    LET frame_in_ts == FrameInTs(pts) IN
    IF ctx.current = NULL THEN
        [ctx |-> [ctx EXCEPT !.frame_out = 0], ret |-> "OK",
         res |-> "exhausted", fwd |-> << >>]
    ELSE IF Discontinuity(ctx, frame_in_ts) THEN
        [ctx |-> ctx, ret |-> "EINVAL", res |-> "error", fwd |-> << >>]
    ELSE
        LET c1 == [ctx EXCEPT !.ts_prev = frame_in_ts]
            frame_out_ts == FrameOutTs(c1, frame_in_ts)
        IN
        IF CrossesEnd(c1, frame_in_ts) THEN
            [ctx |-> [c1 EXCEPT !.current = SegNext(c1.current),
                                !.ts_base = CrossTsBase(c1, frame_in_ts),
                                !.frame_out = 0],
             ret |-> "OK", res |-> "cross", fwd |-> << >>]
        ELSE IF BeforeStart(c1, frame_in_ts) THEN
            [ctx |-> [c1 EXCEPT !.frame_out = 0], ret |-> "OK",
             res |-> "before", fwd |-> << >>]
        ELSE
            [ctx |-> [c1 EXCEPT !.frame_out = IF ds = "OK" THEN 1 ELSE 0],
             ret |-> ds, res |-> "forward", fwd |-> << ToPts(frame_out_ts) >>]

\* the timestamp lies strictly inside some segment's open interval
InsideSome(ts) ==
    \E i \in 1..Len(segments) : segments[i].start < ts /\ ts < segments[i].end

\* frame->pts of the frames upstream sends: from one tick before 0 to the
\* first timestamp past every segment bound
PtsValues == { p \in (0 - 1)..(MaxBound + 1) : FrameInTs(p) <= MaxBound + 1 }

\* what downstream may answer to this frame: it is asked only if the frame is pushed
Answers(pts) ==
    IF Editing_filter_frame(Ctx, pts, "OK").fwd # << >> THEN DownstreamRets ELSE {"OK"}

\* The bookkeeping of one delivered frame: the context and the observations.
Delivered(pts, ds, r) ==
    LET ts == FrameInTs(pts) IN
    /\ current' = r.ctx.current
    /\ ts_base' = r.ctx.ts_base
    /\ ts_prev' = r.ctx.ts_prev
    /\ frame_out' = r.ctx.frame_out
    /\ e_call' = [ts |-> ts, res |-> r.res, fwd |-> r.fwd,
                  ds |-> IF r.fwd # << >> THEN ds ELSE "none"]
    /\ strict' = (strict /\ (~seen \/ ts > maxIn))
    /\ nIn' = (IF strict' THEN nIn + 1 ELSE 0)
    /\ nFwd' = (IF strict' THEN nFwd + Len(r.fwd) ELSE 0)
    /\ nInside' = (IF strict' THEN nInside + (IF InsideSome(ts) THEN 1 ELSE 0) ELSE 0)
    /\ nCross' = (IF strict'
                 THEN nCross + (IF InsideSome(ts) /\ r.res = "cross" THEN 1 ELSE 0)
                 ELSE 0)
    /\ seen' = TRUE
    /\ maxIn' = (IF ~seen \/ ts > maxIn THEN ts ELSE maxIn)
    /\ lastOut' = (IF r.fwd # << >> THEN r.fwd[1] ELSE lastOut)
    /\ scen' = (IF scen >= 0 /\ scen < Len(ScenarioFrames)
                   /\ pts = ScenarioFrames[scen + 1]
                THEN scen + 1 ELSE 0 - 1)
    /\ UNCHANGED fvars

\* Upstream pushes a frame on its own: filter_frame is called, nothing pulls.
EditingFilterFrame(P) ==
    \E pts \in P : \E ds \in Answers(pts) :
        LET r == Editing_filter_frame(Ctx, pts, ds) IN
        /\ e_pc = "idle"
        /\ Delivered(pts, ds, r)
        /\ e_ret' = r.ret
        /\ e_req' = "none"
        /\ UNCHANGED << descr, opt_segments, segments, e_time_base, i_ret, e_pc >>

\* request_frame up to its loop: end-of-stream at once when the list is exhausted.
EditingRequestFrame ==
    /\ e_pc = "idle"
    /\ IF current = NULL
       THEN e_ret' = "EOF" /\ e_pc' = "idle"
       ELSE e_ret' = "pending" /\ e_pc' = "pulling"
    /\ e_req' = "empty"
    /\ UNCHANGED << descr, opt_segments, segments, e_time_base, current, ts_base, ts_prev,
                    frame_out, i_ret, e_call, strict, nIn, nFwd, nInside, nCross,
                    seen, maxIn, lastOut, scen, fvars >>

\* One iteration of the do-while: upstream answers the pull with a frame
\* (its filter_frame result comes back as the pull's result).
EditingPullFrame(P) ==
    \E pts \in P : \E ds \in Answers(pts) :
        LET r == Editing_filter_frame(Ctx, pts, ds) IN
        /\ e_pc = "pulling"
        /\ Delivered(pts, ds, r)
        /\ IF r.ret # "OK" THEN e_ret' = r.ret /\ e_pc' = "idle"
           ELSE IF r.ctx.frame_out # 0 THEN e_ret' = "OK" /\ e_pc' = "idle"
           ELSE e_ret' = "pending" /\ e_pc' = "pulling"
        /\ e_req' = (IF r.fwd # << >> /\ ds = "OK" THEN "forwarded" ELSE e_req)
        /\ UNCHANGED << descr, opt_segments, segments, e_time_base, i_ret >>

\* One iteration of the do-while: upstream returns 0 without delivering a frame.
EditingPullNothing ==
    /\ e_pc = "pulling"
    /\ IF frame_out # 0 THEN e_ret' = "OK" /\ e_pc' = "idle"
       ELSE e_ret' = "pending" /\ e_pc' = "pulling"
    /\ UNCHANGED << descr, opt_segments, segments, e_time_base, current, ts_base, ts_prev,
                    frame_out, i_ret, e_call, strict, nIn, nFwd, nInside, nCross,
                    seen, maxIn, lastOut, scen, e_req, fvars >>

\* One iteration of the do-while: upstream reports end-of-stream or an error.
EditingPullFails ==
    \E err \in {"EOF"} \cup UpstreamErrs :
        /\ e_pc = "pulling"
        /\ e_ret' = err
        /\ e_pc' = "idle"
        /\ UNCHANGED << descr, opt_segments, segments, e_time_base, current, ts_base,
                        ts_prev, frame_out, i_ret, e_call, strict, nIn, nFwd,
                        nInside, nCross, seen, maxIn, lastOut, scen, e_req, fvars >>

\* The selector as allocated, before init: the private context is zeroed and
\* the segments option holds the description of the pairs.
EditingNew(pairs, tb) ==
    /\ descr = pairs
    /\ opt_segments = Str(Describe(pairs))
    /\ segments = << >>
    /\ e_time_base = tb
    /\ current = NULL
    /\ ts_base = 0
    /\ ts_prev = 0
    /\ frame_out = 0
    /\ i_ret = "pending"
    /\ e_pc = "new"
    /\ e_ret = "OK"
    /\ e_call = [ts |-> 0, res |-> "none", fwd |-> << >>, ds |-> "none"]
    /\ strict = TRUE
    /\ nIn = 0 /\ nFwd = 0 /\ nInside = 0 /\ nCross = 0
    /\ seen = FALSE
    /\ maxIn = 0
    /\ lastOut = 0 - 1
    /\ scen = 0
    /\ e_req = "none"

\* init (selector): a refused description leaves what parse_segments linked
\* and the stage never runs; an accepted one starts at the first segment.
Editing_init ==
    LET r == Editing_parse_segments(opt_segments) IN
    /\ e_pc = "new"
    /\ segments' = r.segments
    /\ i_ret' = r.ret
    /\ IF r.ret # "OK"
       THEN /\ e_pc' = "failed"
            /\ UNCHANGED << current, ts_base, ts_prev, frame_out >>
       ELSE /\ e_pc' = "idle"
            /\ current' = (IF r.segments = << >> THEN NULL ELSE 1)
            /\ ts_base' = 0
            /\ ts_prev' = 0
            /\ frame_out' = 0
    /\ UNCHANGED << descr, opt_segments, e_time_base, e_ret, e_call, strict, nIn,
                    nFwd, nInside, nCross, seen, maxIn, lastOut, scen, e_req, fvars >>

\* init of the selector, after parse_segments accepted the list
EditingInitWith(segs, tb) ==
    /\ descr = segs
    /\ opt_segments = Str(Describe(segs))
    /\ i_ret = "OK"
    /\ e_req = "none"
    /\ segments = segs
    /\ e_time_base = tb
    /\ current = 1
    /\ ts_base = 0
    /\ ts_prev = 0
    /\ frame_out = 0
    /\ e_pc = "idle"
    /\ e_ret = "OK"
    /\ e_call = [ts |-> 0, res |-> "none", fwd |-> << >>, ds |-> "none"]
    /\ strict = TRUE
    /\ nIn = 0 /\ nFwd = 0 /\ nInside = 0 /\ nCross = 0
    /\ seen = FALSE
    /\ maxIn = 0
    /\ lastOut = 0 - 1
    /\ scen = 0

\* ------------------------------------------------------------ stabilizer
\* The input links: the video one has a frame every ti units and a tick of one
\* unit, the audio one a sample every ti units and a tick of two units.
Links == { [type |-> "video", time_base |-> 1, ti |-> 1],
           [type |-> "audio", time_base |-> 2, ti |-> 1] }

\* frame->nb_samples: audio frames carry one or two samples, video frames none
SampleCounts == IF inlink.type = "audio" THEN {1, 2} ELSE {0}

Abs(x) == IF x < 0 THEN 0 - x ELSE x

\* av_fifo_size(fixpts->fifo), in bytes
AvFifoSize(f) == PtrSize * Len(f)

\* the buffer is sized with the frame structure instead of the pointer
MaxBufSize_StructSize(n) == (PtrSize * 2) * n

\* fixpts->maxbufsize = sizeof(AVFrame*) * fixpts->bufsize
MaxBufSize(n) == PtrSize * n

\* frame->pts * av_q2d(inlink->time_base)
FrameTs(frame) == frame.pts * inlink.time_base

\* the interval ignores the sample count
FrameTi_PerSample(st) == inlink.ti

\* frame_ti: 1.0 / av_q2d(frame_rate), or 1.0 / sample_rate * last_nb_samples
FrameTi(st) ==
    IF inlink.type = "video" THEN inlink.ti
    ELSE inlink.ti * st.last_nb_samples

\* fabs(fixpts->last_ts - frame->pts * av_q2d(inlink->time_base) + frame_ti)
Gap(st, frame) == Abs(st.last_ts - FrameTs(frame) + FrameTi(st))

\* the scan takes a frame that is merely as good as the best so far
Improves_OrEqual(cached_gap, best_gap) == cached_gap <= best_gap

\* cached_gap < best_gap
Improves(cached_gap, best_gap) == cached_gap < best_gap

\* The scan of the queued frames, from byte offset i on; acc holds drain_size
\* and best_gap.
RECURSIVE ScanFifo(_, _, _, _)
ScanFifo(st, rest, i, acc) ==
    IF i < AvFifoSize(rest) THEN
        LET cached == rest[(i \div PtrSize) + 1]
            cached_gap == Gap(st, cached)
        IN ScanFifo(st, rest, i + PtrSize,
                    IF Improves(cached_gap, acc.best_gap)
                    THEN [drain_size |-> i, best_gap |-> cached_gap]
                    ELSE acc)
    ELSE acc

\* the frames ahead of the improving one are counted one too many
DrainCount_PlusOne(drain_size) == drain_size \div PtrSize + 1

\* the queued frames that drain_size bytes hold: the ones av_fifo_drain removes
DrainCount(drain_size) == drain_size \div PtrSize

\* submit_and_exit: the cadence moves to the frame, which goes downstream
Submit(st, frame, rest, ds, kind) ==
    [fifo |-> rest, last_ts |-> FrameTs(frame),
     last_nb_samples |-> frame.nb_samples,
     out |-> << frame >>, freed |-> << >>, ds |-> << ds >>, ret |-> ds,
     kind |-> kind, best_gap |-> Gap(st, frame), frame_ti |-> FrameTi(st)]

\* process_next_frame.  st holds fifo, last_ts and last_nb_samples, ds is what
\* downstream answers if the frame is pushed.
FixPts_process_next_frame(st, ds) ==
    LET frame == Head(st.fifo)
        rest == Tail(st.fifo)
        frame_gap == Gap(st, frame)
    IN
    IF frame_gap < tolerance THEN Submit(st, frame, rest, ds, "in_tolerance")
    ELSE
        LET scan == ScanFifo(st, rest, 0, [drain_size |-> 0, best_gap |-> frame_gap])
            n == DrainCount(scan.drain_size)
        IN
        IF scan.best_gap >= frame_gap THEN Submit(st, frame, rest, ds, "anyway")
        ELSE
            [fifo |-> SubSeq(rest, n + 1, Len(rest)), last_ts |-> st.last_ts,
             last_nb_samples |-> st.last_nb_samples,
             out |-> << >>, freed |-> << frame >> \o SubSeq(rest, 1, n),
             ds |-> << >>, ret |-> "OK", kind |-> "discard",
             best_gap |-> scan.best_gap, frame_ti |-> FrameTi(st)]

St == [fifo |-> fifo, last_ts |-> last_ts, last_nb_samples |-> last_nb_samples]

\* the result of a call that ran no resolution step
NoStep(st, ret) ==
    [fifo |-> st.fifo, last_ts |-> st.last_ts,
     last_nb_samples |-> st.last_nb_samples, out |-> << >>, freed |-> << >>,
     ds |-> << >>, ret |-> ret, steps |-> 0, kind |-> "none", best_gap |-> 0,
     frame_ti |-> 0, arr |-> << >>]

\* the resolution step runs one frame early
Full_Early(f) == AvFifoSize(f) + PtrSize >= maxbufsize

\* av_fifo_size(fixpts->fifo) == fixpts->maxbufsize
Full(f) == AvFifoSize(f) = maxbufsize

\* the arriving frame is stored only while a second one would still fit
HasRoom_OneLess(f) == AvFifoSize(f) + PtrSize < maxbufsize

\* av_fifo_size(fixpts->fifo) < fixpts->maxbufsize
HasRoom(f) == AvFifoSize(f) < maxbufsize

\* filter_frame (stabilizer): the value process_next_frame returns is dropped
FixPts_filter_frame(st, frame, ds) ==
    LET s1 == IF HasRoom(st.fifo)
              THEN [st EXCEPT !.fifo = Append(st.fifo, frame)]
              ELSE st
        s2 == IF Full(s1.fifo)
              THEN [FixPts_process_next_frame(s1, ds) EXCEPT !.ret = "OK"]
                       @@ [steps |-> 1, arr |-> << frame >>]
              ELSE [NoStep(s1, "OK") EXCEPT !.arr = << frame >>]
    IN IF AvFifoSize(s2.fifo) > maxbufsize
       THEN [s2 EXCEPT !.ret = "EINVAL"]
       ELSE s2

\* The flush loop of request_frame: while the fifo holds a frame, run
\* process_next_frame, and return ret unless it is 0.  acc is the state with
\* what the loop did so far, dss downstream's answers to come.
RECURSIVE FlushLoop(_, _, _)
FlushLoop(acc, ret, dss) ==
    IF AvFifoSize(acc.fifo) > 0 THEN
        LET p == FixPts_process_next_frame(acc, Head(dss))
            a == [p EXCEPT !.out = acc.out \o p.out,
                           !.freed = acc.freed \o p.freed,
                           !.ds = acc.ds \o p.ds,
                           !.ret = ret]
                 @@ [steps |-> acc.steps + 1, arr |-> acc.arr]
        IN IF ret # "OK" THEN a ELSE FlushLoop(a, ret, Tail(dss))
    ELSE [acc EXCEPT !.ret = "OK"]

\* request_frame (stabilizer).  r is what the pull of the input left behind:
\* the state after the filter_frame upstream may have called, and the value
\* ff_request_frame returned.
FixPts_request_frame(r, dss) ==
    IF r.ret # "EOF" \/ AvFifoSize(r.fifo) = 0 THEN r
    ELSE FlushLoop(r, r.ret, dss)

Frames(P) == { [id |-> nArr + 1, pts |-> pts, nb_samples |-> nb] :
                 pts \in P, nb \in SampleCounts }

\* frame->pts of the frames upstream sends
FPtsValues == { p \in 0..MaxFTs : p * inlink.time_base <= MaxFTs }

\* what downstream may answer to this frame's call: it is asked only if the call pushes
FAnswers(frame) ==
    IF FixPts_filter_frame(St, frame, "OK").out # << >> THEN DownstreamRets ELSE {"OK"}

\* the timestamp one interval after the last arrival
Expected ==
    lastArr.ts + (IF inlink.type = "video" THEN inlink.ti
                  ELSE inlink.ti * lastArr.nb_samples)

\* The bookkeeping of one call: the context and the observations.
Called(op, up, r) ==
    /\ f_call.op # "uninit"
    /\ fifo' = r.fifo
    /\ last_ts' = r.last_ts
    /\ last_nb_samples' = r.last_nb_samples
    /\ f_ret' = r.ret
    /\ f_call' = [op |-> op, up |-> up, steps |-> r.steps, arr |-> r.arr]
    /\ f_out' = r.out
    /\ f_freed' = r.freed
    /\ f_ds' = r.ds
    /\ deferred' = IF r.steps = 0 THEN deferred
                   ELSE r.kind = "discard" /\ r.best_gap = 0
    /\ f_ti' = (IF r.steps = 0 THEN f_ti ELSE r.frame_ti)
    /\ emitted' = (IF ledger THEN emitted \o [i \in 1..Len(r.out) |-> r.out[i].id]
                   ELSE emitted)
    /\ discarded' = (IF ledger
                     THEN discarded \cup { r.freed[i].id : i \in 1..Len(r.freed) }
                     ELSE discarded)
    /\ lastEmitNb' = (IF r.out # << >> THEN r.out[Len(r.out)].nb_samples
                      ELSE lastEmitNb)
    /\ UNCHANGED << inlink, bufsize, maxbufsize, tolerance, f_leaked, ledger, evars >>

\* The bookkeeping of one arrival.
Arrived(frame) ==
    /\ nArr' = nArr + 1
    /\ regular' = (regular /\ FrameTs(frame) = Expected)
    /\ lastArr' = IF regular'
                  THEN [ts |-> FrameTs(frame), nb_samples |-> frame.nb_samples]
                  ELSE [ts |-> 0, nb_samples |-> 0]

\* answers downstream may give to a call that pushes at most n frames
AnswerSeqs(n) == [1..n -> DownstreamRets]

\* Upstream pushes a frame on its own.
FixPtsFilterFrame(F) ==
    \E frame \in F : \E ds \in FAnswers(frame) :
        /\ ~f_eof /\ nArr < MaxFrames
        /\ Called("filter_frame", "none", FixPts_filter_frame(St, frame, ds))
        /\ Arrived(frame)
        /\ UNCHANGED f_eof

\* request_frame, and upstream answers the pull with a frame.
FixPtsRequestGetsFrame(F) ==
    \E frame \in F : \E ds \in FAnswers(frame) :
        /\ ~f_eof /\ nArr < MaxFrames
        /\ Called("request_frame", "frame",
                  FixPts_request_frame(FixPts_filter_frame(St, frame, ds), << >>))
        /\ Arrived(frame)
        /\ UNCHANGED f_eof

\* request_frame, and upstream returns 0 without a frame or fails.
FixPtsRequestGetsNone ==
    \E up \in {"OK"} \cup UpstreamErrs :
        /\ ~f_eof
        /\ Called("request_frame", up, FixPts_request_frame(NoStep(St, up), << >>))
        /\ UNCHANGED << f_eof, nArr, regular, lastArr >>

\* request_frame, and upstream reports end-of-stream.
FixPtsRequestAtEof ==
    \E dss \in AnswerSeqs(Len(fifo)) :
        /\ Called("request_frame", "EOF", FixPts_request_frame(NoStep(St, "EOF"), dss))
        /\ f_eof' = TRUE
        /\ UNCHANGED << nArr, regular, lastArr >>

\* uninit (stabilizer): av_fifo_free releases the buffer of pointers, not the
\* frames the pointers lead to.
FixPtsUninit ==
    /\ f_call.op # "uninit"
    /\ fifo' = << >>
    /\ f_leaked' = fifo
    /\ f_call' = [op |-> "uninit", up |-> "none", steps |-> 0, arr |-> << >>]
    /\ f_ret' = "OK"
    /\ f_out' = << >> /\ f_freed' = << >> /\ f_ds' = << >>
    /\ UNCHANGED << inlink, bufsize, maxbufsize, tolerance, last_ts,
                    last_nb_samples, f_eof, f_ti, lastEmitNb, nArr, regular,
                    lastArr, deferred, ledger, emitted, discarded, evars >>

\* init of the stabilizer, with the options and the link it is given
FixPtsInitWith(link, n, tol) ==
    /\ inlink = link
    /\ bufsize = n
    /\ tolerance = tol
    /\ maxbufsize = MaxBufSize(n)
    /\ fifo = << >>
    /\ last_ts = 0
    /\ last_nb_samples = 0
    /\ f_eof = FALSE
    /\ f_ret = "OK"
    /\ f_call = [op |-> "init", up |-> "none", steps |-> 0, arr |-> << >>]
    /\ f_out = << >> /\ f_freed = << >> /\ f_ds = << >>
    /\ f_ti = 0
    /\ f_leaked = << >>
    /\ lastEmitNb = 0
    /\ nArr = 0
    /\ regular = TRUE
    /\ lastArr = [ts |-> 0, nb_samples |-> 0]
    /\ deferred = FALSE
    /\ emitted = << >>
    /\ discarded = {}

\* ---------------------------------------------------------- specifications
\* Each specification runs one stage; the other stage stays as constructed.
EditingIdle == EditingInitWith(ScenarioSegments, 1)

FixPtsIdle ==
    FixPtsInitWith([type |-> "video", time_base |-> 1, ti |-> 1], 1, 0) /\ ledger = FALSE

EditingInit ==
    \E segs \in SegmentLists, tb \in TimeBases :
        EditingInitWith(segs, tb) /\ FixPtsIdle

EditingNext ==
    \/ EditingFilterFrame(PtsValues)
    \/ EditingRequestFrame
    \/ EditingPullFrame(PtsValues)
    \/ EditingPullNothing
    \/ EditingPullFails

EditingSpec == EditingInit /\ [][EditingNext]_vars

\* Initialization alone: the operator describes any pairs, in range or not,
\* ordered or not, and init runs on the description.
DescValues == 0..MaxVal \cup {10}

DescPairs == [start : DescValues, end : DescValues]

Descriptions == UNION { [1..n -> DescPairs] : n \in 1..MaxPairs }

ConfigInit == \E pairs \in Descriptions : EditingNew(pairs, 1) /\ FixPtsIdle

ConfigNext == Editing_init

ConfigSpec == ConfigInit /\ [][ConfigNext]_vars

\* The scenario: the one segment list, frames drawn from the scenario's five.
ScenarioInit == EditingInitWith(ScenarioSegments, 1) /\ FixPtsIdle

ScenarioNext ==
    \/ EditingFilterFrame(ScenarioPts)
    \/ EditingRequestFrame
    \/ EditingPullFrame(ScenarioPts)
    \/ EditingPullNothing
    \/ EditingPullFails

ScenarioSpec == ScenarioInit /\ [][ScenarioNext]_vars

FixPtsInit ==
    \E link \in Links, n \in 1..MaxBuf, tol \in 0..MaxTol :
        FixPtsInitWith(link, n, tol) /\ EditingIdle /\ ledger = FALSE

FixPtsNext ==
    \/ FixPtsFilterFrame(Frames(FPtsValues))
    \/ FixPtsRequestGetsFrame(Frames(FPtsValues))
    \/ FixPtsRequestGetsNone
    \/ FixPtsRequestAtEof

FixPtsSpec == FixPtsInit /\ [][FixPtsNext]_vars

\* The same calls, with the record of where every delivered frame went.
FixPtsLedgerInit ==
    \E link \in Links, n \in 1..MaxBuf, tol \in 0..MaxTol :
        FixPtsInitWith(link, n, tol) /\ EditingIdle /\ ledger = TRUE

FixPtsLedgerSpec == FixPtsLedgerInit /\ [][FixPtsNext]_vars

\* The stabilizer's whole life: the calls above, and uninit at any point.
FixPtsLifeNext ==
    \/ FixPtsFilterFrame(Frames(FPtsValues))
    \/ FixPtsRequestGetsFrame(Frames(FPtsValues))
    \/ FixPtsRequestGetsNone
    \/ FixPtsRequestAtEof
    \/ FixPtsUninit

FixPtsLifeSpec == FixPtsInit /\ [][FixPtsLifeNext]_vars

\* The selector pulling: every pull of upstream that request_frame makes returns.
EditingPull ==
    EditingPullFrame(ScenarioPts) \/ EditingPullNothing \/ EditingPullFails

ScenarioLiveSpec == ScenarioSpec /\ WF_vars(EditingPull)

\* ------------------------------------------------------- selector: claims

\* the pts whose timestamp is the one the last filter_frame call saw
PtsOf(ts) == { p \in PtsValues : FrameInTs(p) = ts }

\* one frame reaches filter_frame in this step, pushed by upstream or pulled
EditingDelivery(pts) == EditingFilterFrame({pts}) \/ EditingPullFrame({pts})

\* sum of end - start over the first n segments
RECURSIVE ClosedLength(_)
ClosedLength(n) ==
    IF n = 0 THEN 0
    ELSE ClosedLength(n - 1) + (segments[n].end - segments[n].start)

\* segments closed so far
Closed == IF current = NULL THEN Len(segments) ELSE current - 1

\* C1 (as claimed): in the scenario the frame at 0.5 s is discarded, 1.5 s is
\* forwarded at 0.5 s, 2.5 s is discarded and leaves ts_base = 1.0 s, 3.5 s is
\* forwarded at 1.5 s, 4.5 s is discarded (units of 0.5 s).
C1_Scenario ==
    /\ scen = 1 => e_call.fwd = << >> /\ e_ret # "EINVAL"
    /\ scen = 2 => e_call.fwd = << 1 >>
    /\ scen = 3 => e_call.fwd = << >> /\ e_call.res = "cross" /\ ts_base = 2
    /\ scen = 4 => e_call.fwd = << 3 >>
    /\ scen = 5 => e_call.fwd = << >> /\ e_call.res # "error"

\* C3 (as claimed): in every state, exhausted list included, a frame whose
\* timestamp is smaller than one delivered earlier gets the discontinuity
\* error and is not forwarded.
C3_Original ==
    [][\A pts \in PtsOf(e_call'.ts) :
         (EditingDelivery(pts) /\ seen /\ FrameInTs(pts) < maxIn)
             => (e_call'.res = "error" /\ e_ret' = "EINVAL" /\ e_call'.fwd = << >>)]_vars

\* C3 (amended): while the segment list is not exhausted, a frame whose
\* timestamp is smaller than one delivered earlier gets the discontinuity
\* error and is not forwarded; once the list is exhausted such a frame is
\* discarded without an error, and is not forwarded either.
C3_Discontinuity ==
    [][\A pts \in PtsOf(e_call'.ts) :
         (EditingDelivery(pts) /\ seen /\ FrameInTs(pts) < maxIn)
             => /\ e_call'.fwd = << >>
                /\ current # NULL
                     => (e_call'.res = "error" /\ e_ret' = "EINVAL")
                /\ current = NULL
                     => (e_call'.res = "exhausted" /\ e_ret' # "EINVAL")]_vars

\* a late frame was refused while a segment was current
C3_Witness ==
    /\ seen /\ current # NULL /\ current > 1
    /\ e_call.res = "error" /\ e_ret = "EINVAL" /\ e_call.ts < maxIn

\* C4: the output pts of the forwarded frames never decreases, within a
\* segment and across segment boundaries (lastOut is -1 before the first).
C4_OutputMonotone == [][lastOut' >= lastOut]_vars

\* frames were forwarded before, and one is forwarded in the third segment
C4_Witness ==
    /\ strict /\ current = 3 /\ e_call.res = "forward" /\ nFwd >= 2
    /\ ts_base > 0

\* C5 (as claimed): ts_base is the total length of the segments closed so
\* far, whatever the timestamp of the frames that crossed the boundaries, so
\* a forwarded frame's output is that length plus its offset in the segment.
C5_Contiguity ==
    /\ ts_base = ClosedLength(Closed)
    /\ (e_call.res = "forward" /\ current # NULL)
          => e_call.fwd[1] =
                ToPts(ClosedLength(Closed) + (e_call.ts - segments[current].start))

\* C10: with strictly increasing timestamps a frame is forwarded iff the list
\* is not exhausted and the timestamp is strictly inside the current segment,
\* and the forwarded frames are the frames inside some segment that were not
\* discarded as boundary crossings.
C10_ForwardRule ==
    /\ [](strict => nFwd = nInside - nCross)
    /\ [][\A pts \in PtsOf(e_call'.ts) :
            (EditingDelivery(pts) /\ strict')
                => (e_call'.fwd # << >>
                      <=> /\ current # NULL
                          /\ segments[current].start < FrameInTs(pts)
                          /\ FrameInTs(pts) < segments[current].end)]_vars

\* frames were forwarded, and a frame inside a segment was lost to a crossing
C10_Witness ==
    /\ strict /\ nFwd >= 2 /\ nCross >= 1 /\ nInside >= 3
    /\ e_call.res = "forward"

\* C11: for a description of one or more pairs of non-negative bounds in
\* plain decimal notation, init succeeds iff every pair has start < end and
\* every pair's start is >= the previous pair's end; otherwise it fails with
\* the configuration error; on success the stored list is exactly the pairs,
\* in order, and current is the first.
C11_Validation ==
    e_pc # "new" =>
        /\ i_ret = "OK" <=> ValidSegments(descr)
        /\ i_ret # "OK" => (i_ret = "EINVAL" /\ e_pc = "failed")
        /\ i_ret = "OK" => (segments = descr /\ current = 1 /\ e_pc = "idle")

\* three pairs were accepted: the second starts where the first ends, and the
\* last bound has two digits
C11_Witness ==
    /\ e_pc = "idle" /\ i_ret = "OK" /\ Len(descr) = 3 /\ Len(segments) = 3
    /\ segments[2].start = segments[1].end
    /\ segments[3].end = 10

\* C12 (as claimed): once current is null, whether it was so when
\* request_frame was called or became so inside its loop, the stage is never
\* again about to pull upstream, and the request reports end-of-stream.
C12_StopsPulling ==
    (current = NULL /\ e_pc \in {"idle", "pulling"}) =>
        /\ e_pc # "pulling"
        /\ e_req # "none" => e_ret = "EOF"

\* C13 (as claimed): when every pull of upstream returns, a request_frame of
\* the selector that entered its loop returns, even if upstream never reports
\* end-of-stream and delivers only frames that are discarded.
C13_PullLoopReturns == (e_pc = "pulling") ~> (e_pc = "idle")

\* C17 (as claimed): with increasing input, a frame discarded because its
\* timestamp is >= current->end is not strictly inside the segment that
\* becomes current, nor inside any later one.
C17_NoSelectableLost ==
    (strict /\ e_call.res = "cross") =>
        \A i \in (Closed + 1)..Len(segments) :
            ~(segments[i].start < e_call.ts /\ e_call.ts < segments[i].end)

\* C18 (as claimed): a request_frame of the selector that returns 0 pushed a
\* frame downstream, with success, during that same call.
C18_SuccessImpliesOutput ==
    (e_pc = "idle" /\ e_req # "none" /\ e_ret = "OK") => e_req = "forwarded"

\* C20: current changes only when a frame is delivered whose timestamp is
\* >= current->end, and then to the immediate successor (null after the last
\* segment); once null it stays null, ts_base and ts_prev keep their values,
\* and every frame delivered is discarded without being forwarded.
C20_CursorMonotone ==
    [][/\ current' # current =>
            /\ current # NULL
            /\ current' = (IF current < Len(segments) THEN current + 1 ELSE NULL)
            /\ \E pts \in PtsOf(e_call'.ts) :
                  EditingDelivery(pts) /\ FrameInTs(pts) >= segments[current].end
       /\ current = NULL =>
            /\ current' = NULL /\ ts_base' = ts_base /\ ts_prev' = ts_prev
            /\ \A pts \in PtsOf(e_call'.ts) : EditingDelivery(pts) =>
                  (e_call'.res = "exhausted" /\ e_call'.fwd = << >>)]_vars

\* the cursor walked through three segments, and a frame that arrived after
\* the last one was discarded
C20_Witness ==
    /\ Len(segments) = 3 /\ current = NULL /\ e_call.res = "exhausted"
    /\ ts_base > 0 /\ e_call.ts < ts_prev

\* ----------------------------------------------------- stabilizer: claims

Min(a, b) == IF a < b THEN a ELSE b

\* the frame that arrives in this step, if one does
Arriving == { f_call'.arr[i] : i \in 1..Len(f_call'.arr) }

\* a frame reaches the stabilizer's filter_frame in this step
FixPtsDelivery(frame) ==
    \/ f_call'.op = "filter_frame" /\ FixPtsFilterFrame({frame})
    \/ f_call'.op = "request_frame" /\ FixPtsRequestGetsFrame({frame})

\* the flush runs in this step: request_frame met end-of-stream with frames queued
FixPtsFlush == fifo # << >> /\ f_call'.up = "EOF" /\ FixPtsRequestAtEof

\* request_frame runs in this step and no frame arrives
FixPtsNoArrival ==
    /\ Arriving = {}
    /\ \/ f_call'.up = "EOF" /\ FixPtsRequestAtEof
       \/ f_call'.up # "EOF" /\ FixPtsRequestGetsNone

\* positions of the queued frames behind the oldest whose gap is 0
ZeroGaps(q) == { j \in 1..(Len(q) - 1) : Gap(St, q[j + 1]) = 0 }

\* the smallest element of a non-empty set of numbers
Least(S) == CHOOSE j \in S : \A k \in S : j <= k

\* the step emitted nothing, released the oldest frame of q and the j - 1
\* frames behind it, and left the rest of q queued
DiscardedAhead(q, j) ==
    /\ f_out' = << >>
    /\ f_freed' = SubSeq(q, 1, j)
    /\ fifo' = SubSeq(q, j + 1, Len(q))

\* C2 (as claimed): when a request_frame that saw end-of-stream returns, the
\* queue is empty.
C2_FlushEmpties ==
    (f_call.op = "request_frame" /\ f_call.up = "EOF") => fifo = << >>

\* C6, selector: an error downstream answers to a push is what the call returns
C6_Editing ==
    [][\A pts \in PtsOf(e_call'.ts) :
         (EditingDelivery(pts) /\ e_call'.ds \notin {"none", "OK"})
             => e_ret' = e_call'.ds]_vars

\* C6, stabilizer: an error downstream answers to a push is what the call returns
C6_FixPts == \A i \in 1..Len(f_ds) : f_ds[i] # "OK" => f_ret = f_ds[i]

\* C6 (as claimed): in both stages an error downstream answers to a push is
\* the return value of the filter_frame or request_frame that pushed.
C6_NoSwallow == C6_Editing /\ []C6_FixPts

\* C7: the queue never holds more than bufsize frames, and no call returns
\* the "Frame buffer is broken" error.
C7_Capacity ==
    /\ Len(fifo) <= bufsize
    /\ AvFifoSize(fifo) <= maxbufsize
    /\ f_ret # "EINVAL"

\* the largest queue filled up and a resolution step made room
C7_Witness ==
    /\ bufsize >= 3 /\ f_call.op = "filter_frame" /\ f_call.steps = 1
    /\ Len(fifo) = bufsize - 1

\* C8: with tolerance > 0 and frames of perfectly regular timestamps, nothing
\* is emitted before the bufsize-th arrival, that arrival and every later one
\* emit exactly the oldest frame, bufsize - 1 frames stay queued and nothing
\* is ever discarded.
C8_SteadyCadence ==
    (regular /\ tolerance > 0 /\ ~f_eof) =>
        /\ f_freed = << >>
        /\ Len(fifo) = Min(nArr, bufsize - 1)
        /\ f_call.up \in {"none", "frame"} /\ f_call.op # "init" =>
              IF nArr < bufsize THEN f_out = << >>
              ELSE Len(f_out) = 1 /\ f_out[1].id = nArr - bufsize + 1

\* one regular frame more than the queue holds: the second emission
C8_Witness ==
    /\ regular /\ tolerance > 0 /\ ~f_eof /\ bufsize >= 3
    /\ nArr = bufsize + 1 /\ Len(f_out) = 1 /\ Len(fifo) = bufsize - 1

\* C9, second half: the resolution step after a deferring one emits the frame
\* that was kept.
DeferredEmitted ==
    (deferred /\ f_call'.steps >= 1) => f_out' = << Head(fifo) >>

\* C9 (as claimed): when the oldest frame's gap is not below tolerance and a
\* later queued frame B has gap 0, the step emits nothing and discards every
\* frame ahead of B; the next step emits B.
C9_OriginalStep(q) ==
    (Gap(St, Head(q)) >= tolerance /\ ZeroGaps(q) # {})
        => \A j \in ZeroGaps(q) : DiscardedAhead(q, j)

C9_Original ==
    [][/\ \A frame \in Arriving :
            (FixPtsDelivery(frame) /\ Full(Append(fifo, frame)))
                => C9_OriginalStep(Append(fifo, frame))
       /\ FixPtsFlush => C9_OriginalStep(fifo)
       /\ DeferredEmitted]_vars

\* C9 (amended): when the oldest frame's gap is not below tolerance and is
\* not 0, and B is the earliest later queued frame with gap 0, the step emits
\* nothing and discards every frame ahead of B; the next step emits B.
C9_Step(q) ==
    (Gap(St, Head(q)) >= tolerance /\ Gap(St, Head(q)) > 0 /\ ZeroGaps(q) # {})
        => DiscardedAhead(q, Least(ZeroGaps(q)))

C9_DeferredEmission ==
    [][/\ \A frame \in Arriving :
            (FixPtsDelivery(frame) /\ Full(Append(fifo, frame)))
                => C9_Step(Append(fifo, frame))
       /\ FixPtsFlush => C9_Step(fifo)
       /\ DeferredEmitted]_vars

\* a step kept a frame with gap 0 and discarded two frames ahead of it
C9_Witness ==
    /\ deferred /\ f_out = << >> /\ Len(f_freed) >= 2
    /\ f_call.op = "filter_frame" /\ fifo # << >>

\* C14 (as claimed): after uninit no frame that was handed to the stabilizer
\* is still held un-released: each one was pushed downstream or released.
C14_NoLeak == f_call.op = "uninit" => f_leaked = << >>

\* the resolution step ran on the queue q in this step
StepOn(q) ==
    \/ \E frame \in Arriving :
          q = Append(fifo, frame) /\ Full(q) /\ FixPtsDelivery(frame)
    \/ q = fifo /\ FixPtsFlush

\* the queues a resolution step can meet
Queues == { fifo } \cup { Append(fifo, frame) : frame \in Arriving }

\* C15 (as claimed): last_ts and last_nb_samples change only in a step that
\* pushes a frame downstream with success, and then to that frame's timestamp
\* and sample count; a step that discards, or whose push fails, leaves them.
C15_CadenceOnSuccess ==
    [][\A q \in Queues : StepOn(q) =>
          IF f_out' # << >> /\ f_ds' = << "OK" >>
          THEN /\ last_ts' = FrameTs(f_out'[1])
               /\ last_nb_samples' = f_out'[1].nb_samples
          ELSE /\ last_ts' = last_ts
               /\ last_nb_samples' = last_nb_samples]_vars

\* positions of q behind the oldest frame whose gap is strictly smaller than
\* the oldest frame's and minimal among the queued frames
Better(q) ==
    { j \in 2..Len(q) :
        /\ Gap(St, q[j]) < Gap(St, q[1])
        /\ \A k \in 2..Len(q) : Gap(St, q[j]) <= Gap(St, q[k]) }

\* C16: a step on a queue whose oldest frame F has a gap not below tolerance
\* emits F when no queued frame has a strictly smaller gap; otherwise it
\* emits nothing, releases F and the frames ahead of the earliest frame of
\* minimal gap, and leaves that frame and the ones behind it queued in order.
\* Every step, one in tolerance included, leaves the queue shorter.
C16_Selection ==
    [][\A q \in Queues : StepOn(q) =>
          /\ Len(fifo') < Len(q)
          /\ Gap(St, q[1]) >= tolerance =>
                IF Better(q) = {}
                THEN /\ f_out' = << q[1] >>
                     /\ f_freed' = << >>
                     /\ fifo' = Tail(q)
                ELSE LET j == Least(Better(q)) IN
                     /\ f_out' = << >>
                     /\ f_freed' = SubSeq(q, 1, j - 1)
                     /\ fifo' = SubSeq(q, j, Len(q))]_vars

\* a step released the oldest frame alone and kept the next one, of smaller
\* gap, with a frame behind it
C16_Witness ==
    /\ f_call.steps = 1 /\ bufsize = 3
    /\ f_out = << >> /\ Len(f_freed) = 1 /\ Len(fifo) = 2
    /\ fifo[1].id = f_freed[1].id + 1

\* C19: on an audio link the interval of a resolution step is the sample
\* count of the frame pushed downstream last (0 before the first push) times
\* the sample period, and the step decides by the gaps that this interval
\* gives to the oldest frame and to every queued frame; the sample counts of
\* the frames under evaluation play no part.
C19_AudioInterval ==
    [][\A q \in Queues : (StepOn(q) /\ inlink.type = "audio") =>
          LET ti == inlink.ti * lastEmitNb
              G(fr) == Abs(last_ts - FrameTs(fr) + ti)
          IN /\ f_ti' = ti
             /\ f_out' # << >> <=>
                   \/ G(q[1]) < tolerance
                   \/ \A k \in 2..Len(q) : G(q[k]) >= G(q[1])]_vars

\* an audio step measured with the two samples of the frame emitted before,
\* and released a frame of one sample
C19_Witness ==
    /\ inlink.type = "audio" /\ f_call.steps = 1 /\ f_ti = 2 * inlink.ti
    /\ f_out = << >> /\ f_freed # << >> /\ f_freed[1].nb_samples = 1

\* how many places hold the frame that arrived i-th
Holders(i) ==
    Cardinality({ k \in 1..Len(fifo) : fifo[k].id = i })
    + Cardinality({ k \in 1..Len(emitted) : emitted[k] = i })
    + (IF i \in discarded THEN 1 ELSE 0)

\* the frames of a sequence
Range(q) == { q[k] : k \in 1..Len(q) }

\* the frames queued and pushed after this step are frames of q, as they were
Untouched(q) == Range(fifo') \cup Range(f_out') \cup Range(f_freed') \subseteq Range(q)

\* C21: after any calls of filter_frame and request_frame every frame
\* delivered so far is in exactly one place: queued, pushed downstream, or
\* released by a resolution step; a frame that arrives is queued, pushed or
\* released by its call, never dropped; the frames pushed downstream left in
\* arrival order, and they carry the timestamp and sample count they
\* arrived with.
C21_Conservation ==
    /\ [](/\ \A i \in 1..nArr : Holders(i) = 1
          /\ \A k \in 2..Len(emitted) : emitted[k - 1] < emitted[k]
          /\ \A k \in 2..Len(fifo) : fifo[k - 1].id < fifo[k].id)
    /\ [][/\ \A frame \in Arriving :
                FixPtsDelivery(frame) =>
                    /\ frame \in Range(fifo') \cup Range(f_out') \cup Range(f_freed')
                    /\ Untouched(Append(fifo, frame))
          /\ FixPtsNoArrival => Untouched(fifo)]_vars

\* of four frames delivered, two or more went downstream, one was released
\* before the last of them, and some are queued
C21_Witness ==
    /\ ledger /\ nArr = 4 /\ Len(emitted) >= 2 /\ discarded # {} /\ fifo # << >>
    /\ \E i \in discarded : i < emitted[Len(emitted)]

====
